---- MODULE Spec2Model ----
(***************************************************************************)
(* CheckstyleDiagnosticManager of vscode-checkstyle: the registry of       *)
(* synced files, the pending set, the lodash debounce timer in front of    *)
(* sendPendingDiagnostics, and the asynchronous drains it starts.          *)
(*                                                                         *)
(* One action is one run of the event loop: an editor event handler, a     *)
(* timer expiry, or the resumption of a suspended sendPendingDiagnostics   *)
(* up to its next await or return.                                         *)
(*                                                                         *)
(* The manager's own fields are modelled in every behaviour.  What its     *)
(* collaborators receive (the output channel, handleErrors, the file       *)
(* synchronizer, the diagnostic collector) and the history the properties  *)
(* speak about are recorded for one aspect per behaviour, named by the     *)
(* variable observe; the manager never reads any of them.                  *)
(***************************************************************************)
EXTENDS Integers, Sequences, FiniteSets, TLC

\* ------------------------------------------------------------------ bounds
MaxDocs == 2        \* paths the editor can show: documents 1..MaxDocs
MaxFiles == 2       \* SyncedFile objects built in one behaviour
MaxDrains == 2      \* sendPendingDiagnostics invocations suspended at the same time
MaxFindings == 1    \* distinct findings the checker can report

\* --------------------------------------------------------------- constants
QuietPeriod == 200  \* _.debounce(..., 200)

CHECK_CODE_WITH_CHECKSTYLE == "java.checkstyle.checkCode"

LogNoConfig == "Checkstyle configuration file not set yet, skip the check."

LogNoResult == "Unable to get results from Language Server."

\* --------------------------------------------------------------- documents
Docs == 1..MaxDocs

LanguageIds == {"java", "plaintext"}

Schemes == {"file", "untitled"}

\* document.languageId === 'java' && document.uri.scheme === 'file'
Recognized(languageId, scheme) == languageId = "java" /\ scheme = "file"

\* What the model keeps of an open document's languageId and scheme.
Kind(languageId, scheme) == IF Recognized(languageId, scheme) THEN "java file" ELSE "other"

\* A SyncedFile object: <<path, n>> is the n-th SyncedFile built, for that path.
\* realUri is the document's path; syncUri names the mirrored copy of the object.
NoFile == <<0, 0>>

realUri(file) == file[1]

syncUri(file) == <<"sync", file[1], file[2]>>

Findings == 1..MaxFindings

Results == SUBSET Findings

Drains == 1..MaxDrains

\* The aspects a behaviour can record; two of them follow one document.
Aspects ==
    [what : {"output", "order", "store", "snapshot", "timing"}, doc : {0}]
    \cup [what : {"lifecycle", "freshness"}, doc : Docs]

VARIABLES
    opened,              \* per path: "closed", or the kind of the open document
    created,             \* SyncedFile objects built so far
    syncedFiles,         \* Map<string, SyncedFile>: per path NoFile or its SyncedFile
    pendingDiagnostics,  \* Set<SyncedFile>, in insertion order
    armed,               \* the debounce timer is running
    elapsed,             \* ms since the last call of diagnosticDelayTrigger
    drains,              \* the suspended sendPendingDiagnostics invocations
    disposed,            \* dispose() has run
    configurationPath,   \* the checkstyle configuration setting, per path
    observe,             \* the aspect this behaviour records
    emitted,             \* output: what the last step sent to the channel and handleErrors
    phase,               \* lifecycle: open / edit / close of observe.doc against the timer
    dirty,               \* freshness: buffered changes of observe.doc
    fresh,               \* freshness: requests issued for its latest content (2: many)
    editCtx,             \* freshness: "none", or was a drain in progress at its last edit
    inFlight,            \* order: drains awaiting a check call, in the order issued
    store,               \* order, store: checkstyleDiagnosticCollector, per path <<>> or <<results>>
    storeStale,          \* order: paths whose entry replaced the results of a later request
    reconciled,          \* store: the last delete / addDiagnostics pair and what it replaced
    burst                \* timing: ms since the last event on a tracked file, and since the timer was first armed

vars == <<opened, created, syncedFiles, pendingDiagnostics, armed, elapsed, drains,
          disposed, configurationPath, observe, emitted, phase, dirty, fresh, editCtx,
          inFlight, store, storeStale, reconciled, burst>>

\* ------------------------------------------------------------------ helpers
Range(s) == {s[i] : i \in 1..Len(s)}

Min(a, b) == IF a < b THEN a ELSE b

Remove(s, x) == SelectSeq(s, LAMBDA y : y # x)

\* A sendPendingDiagnostics invocation: where it is suspended ("flush", "call"),
\* whether its flush() has resolved, the entries its iterator has consumed,
\* the file of its check call; and, as
\* history, whether a later request for the same path has been reconciled
\* (order), whether one of its calls has failed (output), the files that
\* were pending when it started (snapshot), and the arguments of its check
\* call (store).
NoRequest == [command |-> "", uri |-> <<>>, configurationPath |-> ""]

IdleDrain == [pc |-> "idle", idx |-> 0, file |-> NoFile, overtaken |-> FALSE,
              failed |-> FALSE, start |-> {}, request |-> NoRequest,
              flushed |-> FALSE]

Nothing == [log |-> "", error |-> FALSE]

\* An event on a tracked file, seen from outside the debounce: the quiet time
\* starts again; the wait goes on if the timer was already running.
EventAt(b) == IF observe.what # "timing" THEN b
              ELSE [quiet |-> 0, waited |-> IF armed THEN b.waited ELSE 0]

\* No result has been reconciled yet.
NoReconcile == [uri |-> 0, results |-> {}, replaced |-> <<>>]

Draining == \E d \in Drains : drains[d].pc # "idle"

Quiescent == ~armed /\ ~Draining

Watching(what, doc) == observe.what = what /\ observe.doc = doc

\* Set.prototype.add keeps the first insertion position of an element.
SetAdd(set, file) == IF file \in Range(set) THEN set ELSE Append(set, file)

\* ------------------------------------------------------------ collaborators
\* getCheckstyleConfigurationPath(uri): '' while no configuration is set.
getCheckstyleConfigurationPath(uri) == configurationPath[uri]

\* The string form of a document's own URI.
realUriString(file) == <<"file", file[1]>>

\* The check call made with file.realUri.toString() in place of file.syncUri.
CheckRequest_RealUri(file) ==
    [command |-> CHECK_CODE_WITH_CHECKSTYLE,
     uri |-> realUriString(file),
     configurationPath |-> getCheckstyleConfigurationPath(realUri(file))]

\* The arguments of executeJavaLanguageServerCommand in sendPendingDiagnostics.
CheckRequest(file) ==
    [command |-> CHECK_CODE_WITH_CHECKSTYLE,
     uri |-> syncUri(file),
     configurationPath |-> getCheckstyleConfigurationPath(realUri(file))]

\* FileSynchronizer.flush(), at the call: change collection stops, the buffered
\* changes are being written.
FlushCalled(dty) == IF dty = "buffered" THEN "flushing" ELSE dty

\* FileSynchronizer.flush(), resolved: what was being written is in the mirror.
FlushResolved(dty) == IF dty = "flushing" THEN "clean" ELSE dty

\* addDiagnostics(uri, results) without the delete(uri) before it.
Reconcile_Merge(st, uri, results) ==
    [st EXCEPT ![uri] = IF st[uri] = <<>> THEN <<results>> ELSE <<st[uri][1] \cup results>>]

\* checkstyleDiagnosticCollector.delete(uri); addDiagnostics(uri, results)
Reconcile(st, uri, results) == [st EXCEPT ![uri] = <<results>>]

\* ------------------------------------------------------------ construction
\* initialize(): empty collections, the debounced trigger, the listeners, then
\* onDidOpenTextDocument for each document of workspace.textDocuments.  docs is
\* that list; the recognized ones get a SyncedFile each, in list order.
InitialFiles(docs, kinds) ==
    SelectSeq([i \in 1..Len(docs) |->
                  <<docs[i], Cardinality({j \in 1..i : kinds[docs[j]] = "java file"})>>],
              LAMBDA file : kinds[file[1]] = "java file")

DocLists == UNION {{s \in [1..n -> Docs] : \A i, j \in 1..n : i # j => s[i] # s[j]} :
                   n \in 0..MaxDocs}

Init ==
    /\ \E docs \in DocLists :
        /\ opened \in {k \in [Docs -> {"closed", "java file", "other"}] :
                          \A d \in Docs : k[d] # "closed" <=> d \in Range(docs)}
        /\ pendingDiagnostics = InitialFiles(docs, opened)
    /\ created = Len(pendingDiagnostics)
    /\ created <= MaxFiles
    /\ syncedFiles = [d \in Docs |->
                         IF \E f \in Range(pendingDiagnostics) : realUri(f) = d
                         THEN CHOOSE f \in Range(pendingDiagnostics) : realUri(f) = d
                         ELSE NoFile]
    /\ armed = (pendingDiagnostics # <<>>)
    /\ elapsed = 0
    /\ drains = [d \in Drains |-> IdleDrain]
    /\ disposed = FALSE
    /\ configurationPath \in [Docs -> {"", "checkstyle.xml"}]
    /\ observe \in Aspects
    /\ emitted = Nothing
    /\ phase = IF observe.what = "lifecycle" /\ syncedFiles[observe.doc] # NoFile
               THEN "opened" ELSE "none"
    /\ dirty = "clean"
    /\ fresh = 0
    /\ editCtx = "none"
    /\ inFlight = <<>>
    /\ store = [d \in Docs |-> <<>>]
    /\ storeStale = {}
    /\ reconciled = NoReconcile
    /\ burst = [quiet |-> 0, waited |-> 0]

\* ------------------------------------------------------------ the debounce
\* requestDiagnostic with a trigger that lets a running timer run on.
requestDiagnostic_NoRestart(file) ==
    /\ pendingDiagnostics' = SetAdd(pendingDiagnostics, file)
    /\ armed' = TRUE
    /\ elapsed' = IF armed THEN elapsed ELSE 0

\* this.pendingDiagnostics.add(file); this.diagnosticDelayTrigger()
requestDiagnostic(file) ==
    /\ pendingDiagnostics' = SetAdd(pendingDiagnostics, file)
    /\ armed' = TRUE
    /\ elapsed' = 0

\* ----------------------------------------------------------- editor events
\* onDidOpenTextDocument without its languageId / scheme test.
onDidOpenTextDocument_AnyKind(doc, languageId, scheme) ==
    /\ ~disposed
    /\ opened[doc] = "closed"
    /\ created < MaxFiles
    /\ opened' = [opened EXCEPT ![doc] = Kind(languageId, scheme)]
    /\ emitted' = Nothing
    /\ IF syncedFiles[doc] # NoFile
       THEN UNCHANGED <<created, syncedFiles, pendingDiagnostics, armed, elapsed,
                        phase, dirty, fresh, editCtx>>
       ELSE /\ created' = created + 1
            /\ syncedFiles' = [syncedFiles EXCEPT ![doc] = <<doc, created + 1>>]
            /\ pendingDiagnostics' = SetAdd(pendingDiagnostics, <<doc, created + 1>>)
            /\ armed' = TRUE
            /\ elapsed' = 0
            /\ UNCHANGED <<phase, dirty, fresh, editCtx>>
    /\ UNCHANGED <<drains, disposed, configurationPath, observe, inFlight, store,
                   storeStale, reconciled, burst>>

onDidOpenTextDocument(doc, languageId, scheme) ==
    /\ ~disposed
    /\ opened[doc] = "closed"
    /\ Recognized(languageId, scheme) => created < MaxFiles
    /\ opened' = [opened EXCEPT ![doc] = Kind(languageId, scheme)]
    /\ emitted' = Nothing
    /\ IF ~Recognized(languageId, scheme) \/ syncedFiles[doc] # NoFile
       THEN UNCHANGED <<created, syncedFiles, pendingDiagnostics, armed, elapsed,
                        phase, dirty, fresh, editCtx, burst>>
       ELSE /\ created' = created + 1
            /\ syncedFiles' = [syncedFiles EXCEPT ![doc] = <<doc, created + 1>>]
            /\ requestDiagnostic(<<doc, created + 1>>)
            /\ burst' = EventAt(burst)
            /\ phase' = IF Watching("lifecycle", doc) THEN "opened" ELSE phase
            /\ dirty' = IF Watching("freshness", doc) THEN "clean" ELSE dirty
            /\ fresh' = IF Watching("freshness", doc) THEN 0 ELSE fresh
            /\ editCtx' = IF Watching("freshness", doc) THEN "none" ELSE editCtx
    /\ UNCHANGED <<drains, disposed, configurationPath, observe, inFlight, store,
                   storeStale, reconciled>>

onDidChangeTextDocument(doc) ==
    /\ ~disposed
    /\ opened[doc] # "closed"
    /\ emitted' = Nothing
    /\ IF syncedFiles[doc] = NoFile
       THEN UNCHANGED <<pendingDiagnostics, armed, elapsed, phase, dirty, fresh, editCtx,
                        burst>>
       ELSE /\ requestDiagnostic(syncedFiles[doc])
            /\ burst' = EventAt(burst)
            /\ phase' = IF Watching("lifecycle", doc) /\ phase = "opened"
                        THEN "edited" ELSE phase
            /\ dirty' = IF Watching("freshness", doc) THEN "buffered" ELSE dirty
            /\ fresh' = IF Watching("freshness", doc) THEN 0 ELSE fresh
            /\ editCtx' = IF ~Watching("freshness", doc) THEN editCtx
                          ELSE IF Draining THEN "draining" ELSE "quiet"
    /\ UNCHANGED <<opened, created, syncedFiles, drains, disposed, configurationPath,
                   observe, inFlight, store, storeStale, reconciled>>

\* onDidCloseTextDocument also deleting the closed file from the pending set.
onDidCloseTextDocument_Removes(doc) ==
    /\ ~disposed
    /\ opened[doc] # "closed"
    /\ opened' = [opened EXCEPT ![doc] = "closed"]
    /\ emitted' = Nothing
    /\ syncedFiles' = [syncedFiles EXCEPT ![doc] = NoFile]
    /\ pendingDiagnostics' = Remove(pendingDiagnostics, syncedFiles[doc])
    /\ UNCHANGED <<created, armed, elapsed, drains, disposed, configurationPath,
                   observe, phase, dirty, fresh, editCtx, inFlight, store, storeStale,
                   reconciled, burst>>

onDidCloseTextDocument(doc) ==
    /\ ~disposed
    /\ opened[doc] # "closed"
    /\ opened' = [opened EXCEPT ![doc] = "closed"]
    /\ emitted' = Nothing
    /\ IF syncedFiles[doc] = NoFile
       THEN UNCHANGED <<syncedFiles, phase, dirty, fresh, editCtx>>
       ELSE /\ syncedFiles' = [syncedFiles EXCEPT ![doc] = NoFile]
            /\ phase' = IF ~Watching("lifecycle", doc) THEN phase
                        ELSE IF phase = "edited" THEN "closedEarly" ELSE "none"
            /\ dirty' = IF Watching("freshness", doc) THEN "clean" ELSE dirty
            /\ fresh' = IF Watching("freshness", doc) THEN 0 ELSE fresh
            /\ editCtx' = IF Watching("freshness", doc) THEN "none" ELSE editCtx
    /\ UNCHANGED <<created, pendingDiagnostics, armed, elapsed, drains, disposed,
                   configurationPath, observe, inFlight, store, storeStale, reconciled, burst>>

\* this.synchronizer.dispose(); every listener disposed: no event reaches the
\* handlers afterwards.
dispose ==
    /\ ~disposed
    /\ disposed' = TRUE
    /\ emitted' = Nothing
    /\ UNCHANGED <<opened, created, syncedFiles, pendingDiagnostics, armed, elapsed,
                   drains, configurationPath, observe, phase, dirty, fresh, editCtx,
                   inFlight, store, storeStale, reconciled, burst>>

\* -------------------------------------------------------------------- time
Tick ==
    /\ armed
    /\ elapsed < QuietPeriod
    /\ elapsed' = Min(elapsed + QuietPeriod \div 2, QuietPeriod)
    /\ burst' = IF observe.what # "timing" THEN burst
                ELSE [quiet |-> Min(burst.quiet + QuietPeriod \div 2, QuietPeriod),
                      waited |-> Min(burst.waited + QuietPeriod \div 2, 2 * QuietPeriod)]
    /\ emitted' = Nothing
    /\ UNCHANGED <<opened, created, syncedFiles, pendingDiagnostics, armed, drains,
                   disposed, configurationPath, observe, phase, dirty, fresh, editCtx,
                   inFlight, store, storeStale, reconciled>>

\* ------------------------------------------------- sendPendingDiagnostics
\* The head of `for (const file of this.pendingDiagnostics.values())` for the
\* drain d whose iterator has consumed i entries, run up to the next await or
\* to the end of the function.  drs, order, em and dty are the values the
\* resuming step has already given drains, inFlight, emitted and dirty.
\* clear() empties the set under every iterator: each live one restarts on
\* what is added afterwards.
LoopHead(d, i, drs, order, em, dty) ==
    IF i < Len(pendingDiagnostics)
    THEN LET file == pendingDiagnostics[i + 1] IN
         IF getCheckstyleConfigurationPath(realUri(file)) = ""
         THEN /\ emitted' = IF observe.what = "output"
                            THEN [em EXCEPT !.log = LogNoConfig] ELSE emitted
              /\ drains' = [drs EXCEPT ![d] = IdleDrain]
              /\ inFlight' = order
              /\ UNCHANGED <<pendingDiagnostics, fresh, phase>>
         ELSE /\ emitted' = IF observe.what = "output" THEN em ELSE emitted
              /\ drains' = [drs EXCEPT ![d] =
                               [pc |-> "call", idx |-> i + 1, file |-> file,
                                overtaken |-> FALSE,
                                failed |-> observe.what = "output"
                                           /\ (drs[d].failed \/ em.error),
                                start |-> drs[d].start,
                                request |-> IF observe.what = "store"
                                            THEN CheckRequest(file) ELSE NoRequest,
                                flushed |-> drs[d].flushed]]
              /\ inFlight' = IF observe.what = "order" THEN Append(order, d) ELSE inFlight
              /\ fresh' = IF /\ Watching("freshness", realUri(file))
                             /\ syncedFiles[realUri(file)] = file
                             /\ dty = "clean"
                          THEN Min(fresh + 1, 2) ELSE fresh
              /\ phase' = IF /\ Watching("lifecycle", realUri(file))
                             /\ phase \in {"opened", "edited"}
                          THEN "fired" ELSE phase
              /\ UNCHANGED pendingDiagnostics
    ELSE /\ pendingDiagnostics' = <<>>
         /\ drains' = [e \in Drains |-> IF e = d THEN IdleDrain
                                         ELSE [drs[e] EXCEPT !.idx = 0]]
         /\ inFlight' = order
         /\ emitted' = IF observe.what = "output" THEN em ELSE emitted
         /\ UNCHANGED <<fresh, phase>>

\* sendPendingDiagnostics calling flush() without awaiting it: the loop starts
\* in the step in which the timer expires.
TimerFires_NoAwait ==
    /\ armed
    /\ elapsed >= QuietPeriod
    /\ \E d \in Drains :
        /\ drains[d].pc = "idle"
        /\ \A e \in Drains : e < d => drains[e].pc # "idle"
        /\ LoopHead(d, 0, [drains EXCEPT ![d] = [IdleDrain EXCEPT !.pc = "flush"]],
                    inFlight, Nothing, dirty)
    /\ armed' = FALSE
    /\ elapsed' = 0
    /\ dirty' = FlushCalled(dirty)
    /\ UNCHANGED <<opened, created, syncedFiles, disposed, configurationPath, observe,
                   editCtx, store, storeStale, reconciled, burst>>

\* The debounce timer expires: sendPendingDiagnostics starts and suspends at
\* `await this.synchronizer.flush()`.
TimerFires ==
    /\ armed
    /\ elapsed >= QuietPeriod
    /\ \E d \in Drains :
        /\ drains[d].pc = "idle"
        /\ \A e \in Drains : e < d => drains[e].pc # "idle"
        /\ drains' = [drains EXCEPT ![d] =
                         [IdleDrain EXCEPT !.pc = "flush",
                                           !.start = IF observe.what = "snapshot"
                                                     THEN Range(pendingDiagnostics)
                                                     ELSE {}]]
    /\ armed' = FALSE
    /\ elapsed' = 0
    /\ dirty' = FlushCalled(dirty)
    /\ phase' = IF phase \in {"opened", "edited"} THEN "fired" ELSE phase
    /\ emitted' = Nothing
    /\ UNCHANGED <<opened, created, syncedFiles, pendingDiagnostics, disposed,
                   configurationPath, observe, fresh, editCtx, inFlight, store,
                   storeStale, reconciled, burst>>

\* flush() resolves: the loop starts.
FlushResolves(d) ==
    /\ drains[d].pc = "flush"
    /\ dirty' = FlushResolved(dirty)
    /\ LoopHead(d, 0, [drains EXCEPT ![d].flushed = TRUE], inFlight, Nothing, dirty')
    /\ UNCHANGED <<opened, created, syncedFiles, armed, elapsed, disposed,
                   configurationPath, observe, editCtx, store, storeStale, reconciled, burst>>

\* The check call resolves with results: reconcile, then the next iteration.
CheckReturns(d, results) ==
    /\ drains[d].pc = "call"
    /\ observe.what # "store" => results = {}
    /\ LET uri == realUri(drains[d].file)
           older == {inFlight[k] : k \in {k \in 1..Len(inFlight) :
                        \E m \in 1..Len(inFlight) : k < m /\ inFlight[m] = d}}
           drs == [e \in Drains |->
                      IF e \in older /\ realUri(drains[e].file) = uri
                      THEN [drains[e] EXCEPT !.overtaken = TRUE] ELSE drains[e]]
       IN  /\ store' = IF observe.what \in {"order", "store"}
                       THEN Reconcile(store, uri, results) ELSE store
           /\ storeStale' = IF observe.what # "order" THEN storeStale
                            ELSE IF drains[d].overtaken THEN storeStale \cup {uri}
                            ELSE storeStale \ {uri}
           /\ reconciled' = IF observe.what # "store" THEN reconciled
                            ELSE [uri |-> uri, results |-> results,
                                  replaced |-> store[uri]]
           /\ LoopHead(d, drains[d].idx, drs, Remove(inFlight, d), Nothing, dirty)
    /\ UNCHANGED <<opened, created, syncedFiles, armed, elapsed, disposed,
                   configurationPath, observe, dirty, editCtx, burst>>

\* The check call resolves with undefined: log and return.
CheckReturnsNothing(d) ==
    /\ drains[d].pc = "call"
    /\ emitted' = IF observe.what = "output"
                  THEN [Nothing EXCEPT !.log = LogNoResult] ELSE emitted
    /\ drains' = [drains EXCEPT ![d] = IdleDrain]
    /\ inFlight' = Remove(inFlight, d)
    /\ UNCHANGED <<opened, created, syncedFiles, pendingDiagnostics, armed, elapsed,
                   disposed, configurationPath, observe, phase, dirty, fresh, editCtx,
                   store, storeStale, reconciled, burst>>

\* The check call rejects: handleErrors(error), then the next iteration.
CheckFails(d) ==
    /\ drains[d].pc = "call"
    /\ LoopHead(d, drains[d].idx, drains, Remove(inFlight, d),
                [Nothing EXCEPT !.error = TRUE], dirty)
    /\ UNCHANGED <<opened, created, syncedFiles, armed, elapsed, disposed,
                   configurationPath, observe, dirty, editCtx, store, storeStale, reconciled, burst>>

sendPendingDiagnostics ==
    \/ TimerFires
    \/ \E d \in Drains : FlushResolves(d)
    \/ \E d \in Drains : \E results \in Results : CheckReturns(d, results)
    \/ \E d \in Drains : CheckReturnsNothing(d)
    \/ \E d \in Drains : CheckFails(d)

Next ==
    \/ \E doc \in Docs : \E languageId \in LanguageIds : \E scheme \in Schemes :
           onDidOpenTextDocument(doc, languageId, scheme)
    \/ \E doc \in Docs : onDidChangeTextDocument(doc)
    \/ \E doc \in Docs : onDidCloseTextDocument(doc)
    \/ dispose
    \/ Tick
    \/ sendPendingDiagnostics

Spec == Init /\ [][Next]_vars

\* The behaviours that record one aspect.
InitOutput == Init /\ observe.what = "output"

SpecOutput == InitOutput /\ [][Next]_vars

InitLifecycle == Init /\ observe.what = "lifecycle"

SpecLifecycle == InitLifecycle /\ [][Next]_vars

InitFreshness == Init /\ observe.what = "freshness"

SpecFreshness == InitFreshness /\ [][Next]_vars

InitOrder == Init /\ observe.what = "order"

SpecOrder == InitOrder /\ [][Next]_vars

InitStore == Init /\ observe.what = "store"

SpecStore == InitStore /\ [][Next]_vars

InitSnapshot == Init /\ observe.what = "snapshot"

SpecSnapshot == InitSnapshot /\ [][Next]_vars

InitTiming == Init /\ observe.what = "timing"

SpecTiming == InitTiming /\ [][Next]_vars

\* ================================================================== claims
\* In this step the drain d issues a check request (it suspends at the await
\* of executeJavaLanguageServerCommand for a new file).
Issues(d) ==
    /\ drains'[d].pc = "call"
    /\ drains[d].pc # "call" \/ drains'[d].idx = drains[d].idx + 1

\* In this step the drain d ends (sendPendingDiagnostics returns).
Ends(d) == drains[d].pc # "idle" /\ drains'[d].pc = "idle"

\* Nothing is armed or suspended, and the observed document is open (has its
\* registry entry) and has a configuration.
Settled(doc) ==
    /\ Quiescent
    /\ syncedFiles[doc] # NoFile
    /\ getCheckstyleConfigurationPath(doc) # ""

\* C1: a document that was opened, edited and closed before the timer fired,
\* and not reopened since, never gets a check request.
C1_CloseCancelsPending ==
    [][(phase = "closedEarly" /\ phase' = "closedEarly")
        => \A d \in Drains : ~(Issues(d) /\ realUri(drains'[d].file) = observe.doc)]_vars

\* C2: once everything has settled, an open document whose last edit arrived
\* during a drain has had exactly one check request issued for the flushed
\* content of that edit: not zero, not more.  Stated where every document
\* has a configuration, so that no file is skipped.
C2_EditDuringDrainCheckedOnce ==
    (/\ observe.what = "freshness"
     /\ \A doc \in Docs : getCheckstyleConfigurationPath(doc) # ""
     /\ Settled(observe.doc)
     /\ editCtx = "draining")
        => fresh = 1

\* C3: once everything has settled, an open, configured document whose last
\* burst of edits arrived with no drain in progress has had exactly one check
\* request issued, after the flush that took the last edit.
C3_BurstCheckedOnce ==
    (observe.what = "freshness" /\ Settled(observe.doc) /\ editCtx = "quiet")
        => fresh = 1

\* C4: a drain that skips a file without configuration logs the skip and
\* still processes the other pending files: it does not end at the skip
\* while entries of the pending set lie behind the skipped one.
C4_SkipWithoutConfigContinues ==
    [][\A d \in Drains :
          (Ends(d) /\ emitted'.log = LogNoConfig)
              => Len(pendingDiagnostics) <= drains[d].idx + 1]_vars

\* C5: a drain whose check call resolves with no result logs it and goes on:
\* it does not end there while entries of the pending set lie behind the file.
C5_NoResultContinues ==
    [][\A d \in Drains :
          (Ends(d) /\ emitted'.log = LogNoResult)
              => Len(pendingDiagnostics) <= drains[d].idx]_vars

\* C6: a drain in which a check call has failed goes on to the remaining
\* pending files and ends only by running its loop to the end and clearing
\* the pending set.  Stated where every document has a configuration, so
\* that every remaining file is due a check request.
C6_FailureDoesNotAbortDrain ==
    [][\A d \in Drains :
          (/\ \A doc \in Docs : getCheckstyleConfigurationPath(doc) # ""
           /\ drains[d].pc = "call"
           /\ Ends(d)
           /\ drains[d].failed \/ emitted'.error)
              => pendingDiagnostics' = <<>>]_vars

\* C7: every file of the pending set is the registry's entry of its path.
C7_PendingImpliesOpen ==
    \A i \in 1..Len(pendingDiagnostics) :
        syncedFiles[realUri(pendingDiagnostics[i])] = pendingDiagnostics[i]

\* C8: from dispose() on no timer is armed, the pending set is empty and no
\* check request is started.
C8_DisposalLeavesNoWork ==
    [][disposed' => /\ ~armed'
                    /\ pendingDiagnostics' = <<>>
                    /\ \A d \in Drains : ~Issues(d)]_vars

\* C9: no entry of the diagnostics store has been replaced by the results of
\* a request issued before the request whose results it held.
C9_NoStaleOverwrite == storeStale = {}

C11_ReplaceSemantics ==
    [][(observe.what = "store" /\ (reconciled' # reconciled \/ store' # store))
          => /\ reconciled'.uri \in Docs
             /\ reconciled'.replaced = store[reconciled'.uri]
             /\ store' = [store EXCEPT ![reconciled'.uri] = <<reconciled'.results>>]]_vars

\* C11's case: results R2 = {} have just replaced different results R1 of the
\* same path, while another path has its own results in the store.
C11_Witness ==
    /\ observe.what = "store"
    /\ reconciled.uri \in Docs
    /\ reconciled.replaced # <<>>
    /\ reconciled.replaced # <<reconciled.results>>
    /\ reconciled.results = {}
    /\ store[reconciled.uri] = <<{}>>
    /\ \E other \in Docs : other # reconciled.uri /\ store[other] \notin {<<>>, <<{}>>}

\* In this step the drain d starts (the timer fires and sendPendingDiagnostics
\* suspends at the flush).
Starts(d) == drains[d].pc = "idle" /\ drains'[d].pc = "flush"

\* C12: the step that starts a drain leaves the live pending set empty, and
\* every check request a drain issues is for a file that was pending when
\* that drain started.
C12_SnapshotAtDrainStart ==
    [][\A d \in Drains :
          /\ Starts(d) => pendingDiagnostics' = <<>>
          /\ Issues(d) => drains'[d].file \in drains'[d].start]_vars

\* C13: at most one check request is in flight, and at most one drain is in
\* progress: no drain starts while an earlier one is suspended.
C13_NoOverlappingDrains ==
    /\ Cardinality({d \in Drains : drains[d].pc = "call"}) <= 1
    /\ Cardinality({d \in Drains : drains[d].pc # "idle"}) <= 1

\* C14: a drain that ends with files still pending leaves the timer armed,
\* so that whenever no timer is armed and no drain is in progress the pending
\* set is empty.
C14_DrainCompletionRearms ==
    [][/\ \A d \in Drains : (Ends(d) /\ pendingDiagnostics' # <<>>) => armed'
       /\ (~armed' /\ \A d \in Drains : drains'[d].pc = "idle")
              => pendingDiagnostics' = <<>>]_vars

\* C15: whenever the debounce timer is running the pending set is not empty,
\* and no drain starts with an empty pending set.
C15_ArmedImpliesPending ==
    [][/\ armed' => pendingDiagnostics' # <<>>
       /\ \A d \in Drains : Starts(d) => pendingDiagnostics # <<>>]_vars

\* C16: while the timer runs, the time it has counted is the time since the
\* most recent open or change event on a tracked file, however long ago the
\* timer was first armed; so a drain starts only when a full quiet period has
\* passed since that event.
C16_TimerRestart ==
    [][observe.what = "timing"
          => /\ armed' => elapsed' = burst'.quiet
             /\ \A d \in Drains : Starts(d) => burst.quiet >= QuietPeriod]_vars

\* C16's case: a drain has just started, a full quiet period after the last
\* event of a burst whose first event lies two quiet periods back.
C16_Witness ==
    /\ observe.what = "timing"
    /\ \E d \in Drains : drains[d].pc = "flush"
    /\ ~armed
    /\ burst.quiet = QuietPeriod
    /\ burst.waited = 2 * QuietPeriod

\* C17: the pending set holds at most one entry per path.
C17_OnePendingEntryPerDocument ==
    \A i, j \in 1..Len(pendingDiagnostics) :
        i # j => realUri(pendingDiagnostics[i]) # realUri(pendingDiagnostics[j])

\* In this step the drain d resumes from the await of its check call.
Resumes(d) ==
    /\ drains[d].pc = "call"
    /\ Ends(d) \/ drains'[d].idx = drains[d].idx + 1

\* C18: every check request names the mirrored copy of its file, never the
\* document's own URI, and a step that reconciles the results of a request
\* writes the store's entry of the real path of that same file.
C18_IdentityTranslation ==
    [][observe.what = "store" => \A d \in Drains :
          /\ Issues(d) => /\ drains'[d].request.uri = syncUri(drains'[d].file)
                          /\ drains'[d].request.uri # realUriString(drains'[d].file)
          /\ (Resumes(d) /\ (reconciled' # reconciled \/ store' # store))
                 => /\ drains[d].request.uri = syncUri(drains[d].file)
                    /\ reconciled'.uri = realUri(drains[d].file)
                    /\ \A doc \in Docs \ {realUri(drains[d].file)} :
                           store'[doc] = store[doc]]_vars

\* C18's case: a request for a SyncedFile whose number differs from its path
\* is in flight under its mirrored identity, after the results of another
\* path's file have been stored under that path.
C18_Witness ==
    /\ observe.what = "store"
    /\ reconciled.uri \in Docs
    /\ store[reconciled.uri] = <<reconciled.results>>
    /\ \E d \in Drains :
          /\ drains[d].pc = "call"
          /\ drains[d].request.uri = syncUri(drains[d].file)
          /\ drains[d].file[2] # drains[d].file[1]
          /\ realUri(drains[d].file) # reconciled.uri

\* C19: a drain issues a check request only after its own flush() has
\* resolved: never in the step that starts it, never while it awaits the flush.
C19_FlushPrecedesRequests ==
    [][\A d \in Drains :
          /\ Issues(d) => (drains[d].pc # "idle" /\ drains'[d].flushed)
          /\ drains'[d].pc = "flush" => ~Issues(d)
          /\ drains'[d].pc = "call" => drains'[d].flushed]_vars

\* C19's case: one drain has issued its first request after its flush, while
\* another still awaits its own flush and has issued nothing.
C19_Witness ==
    \E d, e \in Drains :
        /\ drains[d].pc = "call" /\ drains[d].idx = 1 /\ drains[d].flushed
        /\ drains[e].pc = "flush" /\ ~drains[e].flushed /\ drains[e].file = NoFile

\* C20: a step that takes a file out of the pending set empties the set and is
\* the end of a drain whose loop has consumed every entry; every other step,
\* the early returns of a drain among them, keeps the set's members in place.
C20_PendingSetFrame ==
    [][/\ (\E file \in Range(pendingDiagnostics) : file \notin Range(pendingDiagnostics'))
             => /\ pendingDiagnostics' = <<>>
                /\ \E d \in Drains : /\ Resumes(d) /\ Ends(d)
                                     /\ drains[d].idx >= Len(pendingDiagnostics)
                                     /\ emitted'.log = ""
       /\ pendingDiagnostics' # <<>>
             => \A i \in 1..Len(pendingDiagnostics) :
                    /\ i <= Len(pendingDiagnostics')
                    /\ pendingDiagnostics'[i] = pendingDiagnostics[i]
       /\ (emitted'.log # "" \/ disposed' # disposed \/ opened' # opened)
             => \A i \in 1..Len(pendingDiagnostics) :
                    /\ i <= Len(pendingDiagnostics')
                    /\ pendingDiagnostics'[i] = pendingDiagnostics[i]]_vars

\* C20's case: a drain has just returned early with two files pending, one of
\* them closed since it was added, after dispose().
C20_Witness ==
    /\ emitted.log \in {LogNoConfig, LogNoResult}
    /\ Len(pendingDiagnostics) = 2
    /\ \E file \in Range(pendingDiagnostics) : syncedFiles[realUri(file)] # file
    /\ disposed

====
